---------------------------- MODULE Spec2Model ----------------------------
(***************************************************************************)
(* A model of src/app/page.tsx (DWMYO, a calendar and task manager):       *)
(* the .ics codec (exportToICS, parseICS), the daily rollover              *)
(* (autoMoveUncompletedTasks), the overview windows (renderOverviewView)   *)
(* and the month grid (renderCalendarView).                                *)
(*                                                                         *)
(* Strings are sequences of one-character strings, so that escaping,       *)
(* splitting, trimming and regular-expression matching are computed the    *)
(* way the code computes them.  The clock `now` counts hours since         *)
(* 1970-01-01T00:00Z (Date.now() at hour granularity); a calendar date is  *)
(* the string "YYYY-MM-DD" the code builds from it.                        *)
(***************************************************************************)
EXTENDS Integers, Sequences, FiniteSets, TLC

VARIABLES
  now,          \* the host clock: hours since the epoch, UTC
  tz,           \* the host's time zone (see TimeZones)
  todos,        \* useState<Todo[]>: the in-memory task collection
  lastCheck,    \* localStorage["dwmyo-last-auto-move-check"], or NoValue
  storedTodos,  \* localStorage["dwmyo-todos"]
  roll,         \* history: the autoMoveUncompletedTasks call of the last step, if any
  ops,          \* history: the number of operations the user has made
  inputTodos,   \* the collection handed to exportToICS (codec runs)
  icsContent,   \* the text produced by exportToICS, or NoValue
  events,       \* the list returned by parseICS, once it has run
  viewYear,     \* useState: the focused year of the calendar view
  viewMonth,    \* useState: the focused month (0..11) of the calendar view
  tagFilter,    \* useState: the tag/text filter
  calendar,     \* what the last renderCalendarView computed
  overview      \* what the last renderOverviewView computed

vars == <<now, tz, todos, lastCheck, storedTodos, roll, ops, inputTodos, icsContent, events,
          viewYear, viewMonth, tagFilter, calendar, overview>>

appVars == <<todos, lastCheck, storedTodos, roll, ops>>

codecVars == <<inputTodos, icsContent, events>>

viewVars == <<viewYear, viewMonth, tagFilter, calendar, overview>>

\* null / undefined; a one-element sequence that is no string of the model,
\* whose strings are sequences of one-character strings.
NoValue == <<"null">>

(***************************************************************************)
(* Strings as sequences of characters.                                     *)
(***************************************************************************)
BS == "\\"
LF == "\n"
CR == "\r"

Digits == <<"0", "1", "2", "3", "4", "5", "6", "7", "8", "9">>

IsDigit(c) == \E i \in 1..10 : Digits[i] = c

DigitVal(c) == (CHOOSE i \in 1..10 : Digits[i] = c) - 1

\* String.prototype.trim's white space, as far as the model's alphabet goes.
WhiteSpace == {" ", "\t", CR, LF}

Min(S) == CHOOSE x \in S : \A y \in S : x <= y

Max(S) == CHOOSE x \in S : \A y \in S : x >= y

\* The elements of a finite set of integers in increasing order.
Sorted(S) == [k \in 1..Cardinality(S) |-> CHOOSE x \in S : Cardinality({y \in S : y < x}) = k - 1]

RECURSIVE Concat(_)
\* The concatenation of a sequence of strings.
Concat(ss) == IF ss = <<>> THEN <<>> ELSE Head(ss) \o Concat(Tail(ss))

RECURSIVE Join(_, _)
\* Array.prototype.join
Join(ss, sep) == IF ss = <<>> THEN <<>> ELSE IF Len(ss) = 1 THEN ss[1] ELSE ss[1] \o sep \o Join(Tail(ss), sep)

\* String(n) for an integer n >= 0
RECURSIVE NumStr(_)
NumStr(n) == IF n < 10 THEN <<Digits[n + 1]>> ELSE NumStr(n \div 10) \o <<Digits[(n % 10) + 1]>>

\* String.prototype.padStart(width, "0")
RECURSIVE PadStart(_, _)
PadStart(s, width) == IF Len(s) >= width THEN s ELSE PadStart(<<"0">> \o s, width)

\* The number written by a string of decimal digits.
RECURSIVE StrNum(_)
StrNum(s) == IF s = <<>> THEN 0 ELSE 10 * StrNum(SubSeq(s, 1, Len(s) - 1)) + DigitVal(s[Len(s)])

AllDigits(s) == \A i \in 1..Len(s) : IsDigit(s[i])

\* String.prototype.startsWith
StartsWith(s, p) == Len(s) >= Len(p) /\ SubSeq(s, 1, Len(p)) = p

\* Whether p occurs in s at position i.
OccursAt(s, p, i) == i >= 1 /\ i + Len(p) - 1 <= Len(s) /\ SubSeq(s, i, i + Len(p) - 1) = p

\* String.prototype.trim
Trim(s) ==
  LET keep == {i \in 1..Len(s) : s[i] \notin WhiteSpace}
  IN  IF keep = {} THEN <<>> ELSE SubSeq(s, Min(keep), Max(keep))

\* s.replace(/c/g, r) for a one-character pattern c.
ReplaceChar(s, c, r) == Concat([i \in 1..Len(s) |-> IF s[i] = c THEN r ELSE <<s[i]>>])

\* s.split(c) for a one-character separator c.
SplitOn(s, c) ==
  LET seps   == {i \in 1..Len(s) : s[i] = c}
      starts == Sorted({1} \cup {i + 1 : i \in seps})
      stop(b) == Min({i \in seps : i >= b} \cup {Len(s) + 1}) - 1
  IN  [k \in 1..Len(starts) |-> SubSeq(s, starts[k], stop(starts[k]))]

(***************************************************************************)
(* The calendar of the JavaScript Date object.                             *)
(***************************************************************************)
IsLeapYear(y) == (y % 4 = 0 /\ y % 100 # 0) \/ y % 400 = 0

\* Days in month m (1..12) of year y.
DaysInMonth(y, m) ==
  IF m = 2 THEN (IF IsLeapYear(y) THEN 29 ELSE 28)
  ELSE IF m \in {4, 6, 9, 11} THEN 30 ELSE 31

\* The day number (days since 1970-01-01) of the civil date y-m-d, m in 1..12.
DaysFromCivil(y, m, d) ==
  LET yy  == IF m <= 2 THEN y - 1 ELSE y
      era == yy \div 400
      yoe == yy - era * 400
      mp  == IF m > 2 THEN m - 3 ELSE m + 9
      doy == (153 * mp + 2) \div 5 + d - 1
      doe == yoe * 365 + yoe \div 4 - yoe \div 100 + doy
  IN  era * 146097 + doe - 719468

\* The civil date of a day number, in steps: the 400-year era and the day of
\* the era, the year of the era, the day of the year (counted from March 1),
\* the month (counted from March).
CivilOfMonth(y, doy, mp) == [year |-> y + (IF mp < 10 THEN 0 ELSE 1), month |-> IF mp < 10 THEN mp + 3 ELSE mp - 9, day |-> doy - (153 * mp + 2) \div 5 + 1]

CivilOfDayOfYear(y, doy) == CivilOfMonth(y, doy, (5 * doy + 2) \div 153)

CivilOfYear(era, yoe, doe) == CivilOfDayOfYear(yoe + era * 400, doe - (365 * yoe + yoe \div 4 - yoe \div 100))

CivilOfEra(era, doe) == CivilOfYear(era, (doe - doe \div 1460 + doe \div 36524 - doe \div 146096) \div 365, doe)

CivilFromDays(z) == CivilOfEra((z + 719468) \div 146097, (z + 719468) % 146097)

\* ECMAScript MakeDay: the day number of new Date(year, month, date), month
\* counted from 0; a month outside 0..11 and a date outside the month carry.
MakeDay(year, month, date) == DaysFromCivil(year + month \div 12, (month % 12) + 1, 1) + date - 1

\* Date.prototype.getDay of a day number: 0 is Sunday.
WeekDay(z) == (z + 4) % 7

\* "YYYY-MM-DD" of a day number: toISOString().split("T")[0]
ISODateOf(c) == PadStart(NumStr(c.year), 4) \o <<"-">> \o PadStart(NumStr(c.month), 2) \o <<"-">> \o PadStart(NumStr(c.day), 2)

ISODate(z) == ISODateOf(CivilFromDays(z))

NaN == 0 - 1000000

\* Whether s is "YYYY-MM-DD" naming a day of the calendar.
IsCalendarDate(s) ==
  /\ Len(s) = 10
  /\ s[5] = "-" /\ s[8] = "-"
  /\ AllDigits(SubSeq(s, 1, 4)) /\ AllDigits(SubSeq(s, 6, 7)) /\ AllDigits(SubSeq(s, 9, 10))
  /\ StrNum(SubSeq(s, 6, 7)) \in 1..12
  /\ StrNum(SubSeq(s, 9, 10)) \in 1..DaysInMonth(StrNum(SubSeq(s, 1, 4)), StrNum(SubSeq(s, 6, 7)))

\* new Date("YYYY-MM-DD"): the day number of the date (midnight UTC), NaN for
\* a string that names no day.
DateParse(s) ==
  IF IsCalendarDate(s)
  THEN DaysFromCivil(StrNum(SubSeq(s, 1, 4)), StrNum(SubSeq(s, 6, 7)), StrNum(SubSeq(s, 9, 10)))
  ELSE NaN

\* a < b on two Date objects: false when either is an Invalid Date.
DateLess(a, b) == a # NaN /\ b # NaN /\ a < b

(***************************************************************************)
(* Local time.  getFullYear, getMonth, getDate and setDate work on the     *)
(* host's wall clock, toISOString on UTC.  A wall clock counts hours, as   *)
(* the clock does, from 1970-01-01T00:00 of the zone.                      *)
(***************************************************************************)
\* The host's zone: UTC, or New York with its daylight saving time.
TimeZones == {"UTC", "America/New_York"}

\* The day number of the n-th Sunday on or after the day `first`.
NthSundayFrom(first, n) == first + ((7 - WeekDay(first)) % 7) + 7 * (n - 1)

\* The day number of the n-th Sunday of month m (1..12) of year y.
NthSunday(y, m, n) == NthSundayFrom(DaysFromCivil(y, m, 1), n)

YearOfDay(z) == CivilFromDays(z).year

\* New York keeps daylight time from the second Sunday of March, 02:00
\* standard time (07:00 UTC), to the first Sunday of November, 02:00
\* daylight time (06:00 UTC).
DaylightAtIn(clock, y) == clock >= NthSunday(y, 3, 2) * 24 + 7 /\ clock < NthSunday(y, 11, 1) * 24 + 6

DaylightAt(clock) == DaylightAtIn(clock, YearOfDay(clock \div 24))

\* Hours the zone is ahead of UTC at the instant `clock`.
UtcOffset(zone, clock) == IF zone = "UTC" THEN 0 ELSE IF DaylightAt(clock) THEN 0 - 4 ELSE 0 - 5

\* The wall clock of the zone at the instant `clock`.
LocalTime(zone, clock) == clock + UtcOffset(zone, clock)

\* Whether a wall clock of New York is daylight time: the hour skipped in
\* March is read as standard time, the hour repeated in November as
\* daylight time.
DaylightOnWallIn(wall, y) == wall >= NthSunday(y, 3, 2) * 24 + 3 /\ wall < NthSunday(y, 11, 1) * 24 + 2

DaylightOnWall(wall) == DaylightOnWallIn(wall, YearOfDay(wall \div 24))

\* The instant at which the zone's wall clock shows `wall`.
UtcOfLocal(zone, wall) == IF zone = "UTC" THEN wall ELSE IF DaylightOnWall(wall) THEN wall + 4 ELSE wall + 5

\* new Date().getFullYear() and new Date().getMonth()
LocalYear(clock, zone) == CivilFromDays(LocalTime(zone, clock) \div 24).year

LocalMonth(clock, zone) == CivilFromDays(LocalTime(zone, clock) \div 24).month - 1


(***************************************************************************)
(* The task record (type Todo) and the seed collection (mockTodos).        *)
(***************************************************************************)
Todo(id, text, completed, date, category, tags, pinned) == [id |-> id, text |-> text, completed |-> completed, date |-> date, category |-> category, tags |-> tags, pinned |-> pinned]

personal == <<"p", "e", "r", "s", "o", "n", "a", "l">>

mockTodos ==
  << Todo(<<"1">>, <<"T", "e", "a", "m", " ", "s", "t", "a", "n", "d", "u", "p", " ", "m", "e", "e", "t", "i", "n", "g">>,
          FALSE, <<"2", "0", "2", "4", "-", "0", "1", "-", "1", "5">>, <<"w", "o", "r", "k">>,
          <<<<"m", "e", "e", "t", "i", "n", "g">>, <<"t", "e", "a", "m">>>>, FALSE),
     Todo(<<"2">>, <<"R", "e", "v", "i", "e", "w", " ", "p", "r", "o", "j", "e", "c", "t", " ", "p", "r", "o", "p", "o", "s", "a", "l">>,
          TRUE, <<"2", "0", "2", "4", "-", "0", "1", "-", "1", "5">>, <<"w", "o", "r", "k">>,
          <<<<"r", "e", "v", "i", "e", "w">>, <<"p", "r", "o", "j", "e", "c", "t">>>>, FALSE),
     Todo(<<"3">>, <<"G", "r", "o", "c", "e", "r", "y", " ", "s", "h", "o", "p", "p", "i", "n", "g">>,
          FALSE, <<"2", "0", "2", "4", "-", "0", "1", "-", "1", "6">>, <<"p", "e", "r", "s", "o", "n", "a", "l">>,
          <<<<"s", "h", "o", "p", "p", "i", "n", "g">>, <<"e", "r", "r", "a", "n", "d", "s">>>>, FALSE),
     Todo(<<"4">>, <<"G", "y", "m", " ", "w", "o", "r", "k", "o", "u", "t">>,
          FALSE, <<"2", "0", "2", "4", "-", "0", "1", "-", "1", "6">>, <<"h", "e", "a", "l", "t", "h">>,
          <<<<"f", "i", "t", "n", "e", "s", "s">>, <<"r", "o", "u", "t", "i", "n", "e">>>>, FALSE),
     Todo(<<"5">>, <<"C", "a", "l", "l", " ", "m", "o", "m">>,
          TRUE, <<"2", "0", "2", "4", "-", "0", "1", "-", "1", "4">>, <<"p", "e", "r", "s", "o", "n", "a", "l">>,
          <<<<"f", "a", "m", "i", "l", "y">>, <<"c", "a", "l", "l">>>>, FALSE) >>

(***************************************************************************)
(* exportToICS                                                             *)
(***************************************************************************)
\* formatDate: new Date(dateString + "T12:00:00") is noon, local time, of the
\* day the string names, and getFullYear/getMonth/getDate read the same day
\* back in local time; an unparsable string gives NaN in each field.
YearMonthDay(c) == NumStr(c.year) \o PadStart(NumStr(c.month), 2) \o PadStart(NumStr(c.day), 2)

FormatDateOf(t) == IF t = NaN THEN <<"N", "a", "N", "N", "a", "N", "N", "a", "N">> ELSE YearMonthDay(CivilFromDays(t))

FormatDate(dateString) == FormatDateOf(DateParse(dateString))

\* formatDateTime: the UTC fields of the clock, YYYYMMDDTHHMMSSZ.
FormatDateTime(clock) == YearMonthDay(CivilFromDays(clock \div 24)) \o <<"T">> \o PadStart(NumStr(clock % 24), 2) \o <<"0", "0", "0", "0", "Z">>

\* escapeText: four replacements, the backslash first.
EscapeText(text) == ReplaceChar(ReplaceChar(ReplaceChar(ReplaceChar(text, BS, <<BS, BS>>), ";", <<BS, ";">>), ",", <<BS, ",">>), LF, <<BS, "n">>)

\* The template literal of the description: the two characters backslash, n
\* separate the three sub-fields.
DescriptionText(todo) ==
  <<"C", "a", "t", "e", "g", "o", "r", "y", ":", " ">> \o todo.category
    \o <<BS, "n", "T", "a", "g", "s", ":", " ">> \o Join(todo.tags, <<",", " ">>)
    \o <<BS, "n", "C", "o", "m", "p", "l", "e", "t", "e", "d", ":", " ">>
    \o (IF todo.completed THEN <<"Y", "e", "s">> ELSE <<"N", "o">>)

BEGIN_VEVENT == <<"B", "E", "G", "I", "N", ":", "V", "E", "V", "E", "N", "T">>

END_VEVENT == <<"E", "N", "D", ":", "V", "E", "V", "E", "N", "T">>

COMPLETED == <<"C", "O", "M", "P", "L", "E", "T", "E", "D">>

\* The nine lines pushed for one task.
EventLines(todo, clock) ==
  << BEGIN_VEVENT,
     <<"U", "I", "D", ":", "t", "o", "d", "o", "-">> \o todo.id \o <<"@", "d", "w", "m", "y", "o", ".", "a", "p", "p">>,
     <<"D", "T", "S", "T", "A", "M", "P", ":">> \o FormatDateTime(clock),
     <<"D", "T", "S", "T", "A", "R", "T", ";", "V", "A", "L", "U", "E", "=", "D", "A", "T", "E", ":">> \o FormatDate(todo.date),
     <<"S", "U", "M", "M", "A", "R", "Y", ":">> \o EscapeText(todo.text),
     <<"D", "E", "S", "C", "R", "I", "P", "T", "I", "O", "N", ":">> \o EscapeText(DescriptionText(todo)),
     <<"C", "A", "T", "E", "G", "O", "R", "I", "E", "S", ":">> \o todo.category,
     <<"S", "T", "A", "T", "U", "S", ":">> \o (IF todo.completed THEN COMPLETED ELSE <<"C", "O", "N", "F", "I", "R", "M", "E", "D">>),
     END_VEVENT >>

IcsHeader ==
  << <<"B", "E", "G", "I", "N", ":", "V", "C", "A", "L", "E", "N", "D", "A", "R">>,
     <<"V", "E", "R", "S", "I", "O", "N", ":", "2", ".", "0">>,
     <<"P", "R", "O", "D", "I", "D", ":", "-", "/", "/", "D", "W", "M", "Y", "O", "/", "/", "D", "W", "M", "Y", "O", "/", "/", "E", "N">>,
     <<"C", "A", "L", "S", "C", "A", "L", "E", ":", "G", "R", "E", "G", "O", "R", "I", "A", "N">>,
     <<"M", "E", "T", "H", "O", "D", ":", "P", "U", "B", "L", "I", "S", "H">> >>

\* exportToICS(todos), read at clock: header, one block per task in input
\* order, footer, joined by CRLF.
ExportToICS(list, clock) ==
  Join(IcsHeader \o Concat([i \in 1..Len(list) |-> EventLines(list[i], clock)])
         \o << <<"E", "N", "D", ":", "V", "C", "A", "L", "E", "N", "D", "A", "R">> >>,
       <<CR, LF>>)

(***************************************************************************)
(* parseICS                                                                *)
(***************************************************************************)
\* icsContent.split(/\r?\n/)
SplitLines(s) ==
  LET nl     == {i \in 1..Len(s) : s[i] = LF}
      starts == Sorted({1} \cup {i + 1 : i \in nl})
      brk(b) == Min({i \in nl : i >= b} \cup {Len(s) + 1})
      stop(b) == IF brk(b) <= Len(s) /\ brk(b) - 1 >= b /\ s[brk(b) - 1] = CR THEN brk(b) - 2 ELSE brk(b) - 1
  IN  [k \in 1..Len(starts) |-> SubSeq(s, starts[k], stop(starts[k]))]

\* An accumulator that starts pinned.
NewEvent_Pinned(id) == [id |-> id, text |-> NoValue, date |-> NoValue, completed |-> FALSE, category |-> personal, tags |-> <<>>, pinned |-> TRUE]

\* The accumulator opened at BEGIN:VEVENT; text and date are not set yet.
NewEvent(id) == [id |-> id, text |-> NoValue, date |-> NoValue, completed |-> FALSE, category |-> personal, tags |-> <<>>, pinned |-> FALSE]

\* JavaScript truthiness of an optional string.
Truthy(v) == v # NoValue /\ v # <<>>

\* value.replace(/T.*/, ""): from the first T to the end of the line.
StripTime(value) ==
  LET ts == {i \in 1..Len(value) : value[i] = "T"}
      from == Min(ts)
      upto == Min({i \in from..Len(value) : value[i] \in {CR, LF}} \cup {Len(value) + 1})
  IN  IF ts = {} THEN value ELSE SubSeq(value, 1, from - 1) \o SubSeq(value, upto, Len(value))

\* The DTSTART branch: the date the line sets, NoValue when it sets none.
DtstartDate(value) ==
  LET dateValue == StripTime(value)
  IN  IF Len(dateValue) = 8 /\ AllDigits(dateValue)
      THEN SubSeq(dateValue, 1, 4) \o <<"-">> \o SubSeq(dateValue, 5, 6) \o <<"-">> \o SubSeq(dateValue, 7, 8)
      ELSE NoValue

RECURSIVE UnescapeNewlines(_)
\* value.replace(/\\n/g, "\n"): every backslash followed by n becomes a line feed.
UnescapeNewlines(s) ==
  IF s = <<>> THEN <<>>
  ELSE IF Len(s) >= 2 /\ s[1] = BS /\ s[2] = "n" THEN <<LF>> \o UnescapeNewlines(SubSeq(s, 3, Len(s)))
  ELSE <<s[1]>> \o UnescapeNewlines(Tail(s))

\* The number of white-space characters of s from position q on.
SpaceRun(s, q) == Min({k \in 0..(Len(s) - q + 1) : q + k > Len(s) \/ s[q + k] \notin WhiteSpace})

\* description.match(/<lit>\s*([^\n]+)/): group 1 of the leftmost match, NoValue
\* when there is none.  \s* is greedy and gives characters back until a
\* character other than a line feed follows.
MatchLine(description, lit) ==
  LET from(p) == p + Len(lit)
      gives(p) == {j \in 0..SpaceRun(description, from(p)) : from(p) + j <= Len(description) /\ description[from(p) + j] # LF}
      hits == {p \in 1..Len(description) : OccursAt(description, lit, p) /\ gives(p) # {}}
      p0 == Min(hits)
      b  == from(p0) + Max(gives(p0))
      e  == Min({i \in b..Len(description) : description[i] = LF} \cup {Len(description) + 1}) - 1
  IN  IF hits = {} THEN NoValue ELSE SubSeq(description, b, e)

\* description.match(/Completed:\s*(Yes|No)/): group 1, or NoValue.
MatchCompleted(description) ==
  LET lit == <<"C", "o", "m", "p", "l", "e", "t", "e", "d", ":">>
      at(p) == p + Len(lit) + SpaceRun(description, p + Len(lit))
      ok(p) == OccursAt(description, <<"Y", "e", "s">>, at(p)) \/ OccursAt(description, <<"N", "o">>, at(p))
      hits == {p \in 1..Len(description) : OccursAt(description, lit, p) /\ ok(p)}
  IN  IF hits = {} THEN NoValue
      ELSE IF OccursAt(description, <<"Y", "e", "s">>, at(Min(hits))) THEN <<"Y", "e", "s">> ELSE <<"N", "o">>

\* tagsMatch[1].split(",").map((tag) => tag.trim()).filter((tag) => tag)
SplitTags(s) ==
  LET parts == SplitOn(s, ",")
  IN  SelectSeq([i \in 1..Len(parts) |-> Trim(parts[i])], LAMBDA tag : tag # <<>>)

\* The DESCRIPTION branch leaving the completed flag alone.
ApplyDescription_NoCompleted(ev, value) ==
  LET description    == UnescapeNewlines(value)
      categoryMatch  == MatchLine(description, <<"C", "a", "t", "e", "g", "o", "r", "y", ":">>)
      tagsMatch      == MatchLine(description, <<"T", "a", "g", "s", ":">>)
  IN  [ev EXCEPT !.category  = IF categoryMatch # NoValue THEN Trim(categoryMatch) ELSE @,
                 !.tags      = IF tagsMatch # NoValue THEN SplitTags(tagsMatch) ELSE @]

\* The DESCRIPTION branch: each sub-field found overwrites its field.
ApplyDescription(ev, value) ==
  LET description    == UnescapeNewlines(value)
      categoryMatch  == MatchLine(description, <<"C", "a", "t", "e", "g", "o", "r", "y", ":">>)
      tagsMatch      == MatchLine(description, <<"T", "a", "g", "s", ":">>)
      completedMatch == MatchCompleted(description)
  IN  [ev EXCEPT !.category  = IF categoryMatch # NoValue THEN Trim(categoryMatch) ELSE @,
                 !.tags      = IF tagsMatch # NoValue THEN SplitTags(tagsMatch) ELSE @,
                 !.completed = IF completedMatch # NoValue THEN completedMatch = <<"Y", "e", "s">> ELSE @]

\* A property line inside an event: key is the text before the first colon,
\* value the rest; the first matching prefix decides.
ApplyProperty(ev, trimmedLine) ==
  LET colon == Min({i \in 1..Len(trimmedLine) : trimmedLine[i] = ":"})
      key   == SubSeq(trimmedLine, 1, colon - 1)
      value == SubSeq(trimmedLine, colon + 1, Len(trimmedLine))
  IN  IF StartsWith(key, <<"S", "U", "M", "M", "A", "R", "Y">>) THEN [ev EXCEPT !.text = value]
      ELSE IF StartsWith(key, <<"D", "T", "S", "T", "A", "R", "T">>)
           THEN (IF DtstartDate(value) # NoValue THEN [ev EXCEPT !.date = DtstartDate(value)] ELSE ev)
      ELSE IF StartsWith(key, <<"D", "E", "S", "C", "R", "I", "P", "T", "I", "O", "N">>) THEN ApplyDescription(ev, value)
      ELSE IF StartsWith(key, <<"S", "T", "A", "T", "U", "S">>) THEN [ev EXCEPT !.completed = (value = COMPLETED)]
      ELSE IF StartsWith(key, <<"C", "A", "T", "E", "G", "O", "R", "I", "E", "S">>) THEN [ev EXCEPT !.category = value]
      ELSE ev

\* The loop body committing an event on its text alone.
ParseLine_NoDateCheck(st, line, ids) ==
  LET trimmedLine == Trim(line)
  IN  IF trimmedLine = BEGIN_VEVENT
      THEN [st EXCEPT !.currentEvent = <<NewEvent(ids[st.begun + 1])>>, !.begun = @ + 1]
      ELSE IF trimmedLine = END_VEVENT /\ st.currentEvent # <<>>
      THEN [st EXCEPT !.events = IF Truthy(st.currentEvent[1].text) THEN Append(@, st.currentEvent[1]) ELSE @,
                      !.currentEvent = <<>>]
      ELSE IF st.currentEvent # <<>> /\ (\E i \in 1..Len(trimmedLine) : trimmedLine[i] = ":")
      THEN [st EXCEPT !.currentEvent = <<ApplyProperty(st.currentEvent[1], trimmedLine)>>]
      ELSE st

\* The loop body keeping the open accumulator at a begin marker.
ParseLine_Nested(st, line, ids) ==
  LET trimmedLine == Trim(line)
  IN  IF trimmedLine = BEGIN_VEVENT
      THEN [st EXCEPT !.currentEvent = IF @ = <<>> THEN <<NewEvent(ids[st.begun + 1])>> ELSE @, !.begun = @ + 1]
      ELSE IF trimmedLine = END_VEVENT /\ st.currentEvent # <<>>
      THEN [st EXCEPT !.events = IF Truthy(st.currentEvent[1].text) /\ Truthy(st.currentEvent[1].date)
                                 THEN Append(@, st.currentEvent[1]) ELSE @,
                      !.currentEvent = <<>>]
      ELSE IF st.currentEvent # <<>> /\ (\E i \in 1..Len(trimmedLine) : trimmedLine[i] = ":")
      THEN [st EXCEPT !.currentEvent = <<ApplyProperty(st.currentEvent[1], trimmedLine)>>]
      ELSE st

\* One iteration of the loop over the lines.  st.events is the output list,
\* st.currentEvent is <<>> (null) or <<accumulator>>, st.begun counts the
\* BEGIN:VEVENT lines seen; ids[k] is the identifier minted at the k-th.
ParseLine(st, line, ids) ==
  LET trimmedLine == Trim(line)
  IN  IF trimmedLine = BEGIN_VEVENT
      THEN [st EXCEPT !.currentEvent = <<NewEvent(ids[st.begun + 1])>>, !.begun = @ + 1]
      ELSE IF trimmedLine = END_VEVENT /\ st.currentEvent # <<>>
      THEN [st EXCEPT !.events = IF Truthy(st.currentEvent[1].text) /\ Truthy(st.currentEvent[1].date)
                                 THEN Append(@, st.currentEvent[1]) ELSE @,
                      !.currentEvent = <<>>]
      ELSE IF st.currentEvent # <<>> /\ (\E i \in 1..Len(trimmedLine) : trimmedLine[i] = ":")
      THEN [st EXCEPT !.currentEvent = <<ApplyProperty(st.currentEvent[1], trimmedLine)>>]
      ELSE st

RECURSIVE ParseLines(_, _, _, _)
ParseLines(st, lines, i, ids) == IF i > Len(lines) THEN st ELSE ParseLines(ParseLine(st, lines[i], ids), lines, i + 1, ids)

\* The number of lines that open an event.
BeginCount(icsText) == LET lines == SplitLines(icsText) IN Cardinality({i \in 1..Len(lines) : Trim(lines[i]) = BEGIN_VEVENT})

\* parseICS(icsContent); ids are the identifiers
\* Date.now().toString() + Math.random().toString(36).substr(2, 9) it mints.
ParseICS(icsText, ids) == ParseLines([events |-> <<>>, currentEvent |-> <<>>, begun |-> 0], SplitLines(icsText), 1, ids).events


(***************************************************************************)
(* Values the variables hold before the operation that sets them has run.  *)
(***************************************************************************)
\* No call of autoMoveUncompletedTasks in the last step; today is the date
\* the most recent call read, if there was one.
NoRoll == [called |-> FALSE, today |-> NoValue]

NoCall(previous) == [called |-> FALSE, today |-> previous.today]

NoCalendar == [rendered |-> FALSE]

NoOverview == [rendered |-> FALSE]

NotParsed == [parsed |-> FALSE]

\* localStorage.getItem(STORAGE_KEY) is null.
NothingStored == [kind |-> "null"]

(***************************************************************************)
(* The codec on its own: a collection is exported, the text is parsed.     *)
(***************************************************************************)
\* 2024-03-10
BaseDay == DaysFromCivil(2024, 3, 10)

MaxTextLen == 2

MaxTags == 2

TextAlphabet == {"a", " ", ",", ";", BS, LF}

TagNames == {<<"x">>, <<"y">>}

\* The strings over an alphabet of length 1..n.
Strings(alphabet, n) == UNION {[1..k -> alphabet] : k \in 1..n}

\* Task texts: text.trim() is not empty (handleSubmit, addTodo).
Texts == {t \in Strings(TextAlphabet, MaxTextLen) : Trim(t) # <<>>}

TagLists == UNION {[1..k -> TagNames] : k \in 0..MaxTags}

Categories == {personal, <<"w", "o", "r", "k">>}

\* The tasks exported: every text with one setting of the other fields, and
\* every setting of the other fields with one text.
CodecTasks ==
  {Todo(<<"7">>, text, FALSE, ISODate(BaseDay), personal, <<>>, FALSE) : text \in Texts}
    \cup {Todo(<<"7">>, <<"a">>, completed, ISODate(BaseDay + (IF completed THEN 0 ELSE 22)), category, tags, completed) : completed \in BOOLEAN, category \in Categories, tags \in TagLists}

\* A second task to stand before or after the first.
FillerTasks == {Todo(<<"8">>, <<"b">>, TRUE, ISODate(BaseDay + 1), <<"w", "o", "r", "k">>, << <<"y">> >>, FALSE), Todo(<<"9">>, <<",">>, FALSE, ISODate(BaseDay), personal, <<>>, TRUE)}

CodecInputs == {<<t>> : t \in CodecTasks} \cup {<<t, u>> : t \in CodecTasks, u \in FillerTasks} \cup {<<u, t>> : t \in CodecTasks, u \in FillerTasks}

\* Math.random().toString(36).substr(2, 9)
RandomSuffixes == {<<"k", "3">>, <<"z">>}

InitCodec ==
  /\ now = BaseDay * 24 + 13
  /\ tz = "UTC"
  /\ todos = <<>>
  /\ lastCheck = NoValue
  /\ storedTodos = NothingStored
  /\ roll = NoRoll
  /\ ops = 0
  /\ inputTodos \in CodecInputs
  /\ icsContent = NoValue
  /\ events = NotParsed
  /\ viewYear = LocalYear(now, tz)
  /\ viewMonth = LocalMonth(now, tz)
  /\ tagFilter = <<>>
  /\ calendar = NoCalendar
  /\ overview = NoOverview

\* handleExport: const icsContent = exportToICS(todos)
Export ==
  /\ icsContent = NoValue
  /\ icsContent' = ExportToICS(inputTodos, now)
  /\ UNCHANGED <<now, tz, appVars, inputTodos, events, viewVars>>

\* reader.onload: const importedEvents = parseICS(content)
Parse ==
  /\ icsContent # NoValue
  /\ ~events.parsed
  /\ \E r \in [1..BeginCount(icsContent) -> RandomSuffixes] :
       events' = [parsed |-> TRUE, list |-> ParseICS(icsContent, [k \in 1..BeginCount(icsContent) |-> NumStr(now) \o r[k]])]
  /\ UNCHANGED <<now, tz, appVars, inputTodos, icsContent, viewVars>>

NextCodec == Export \/ Parse

SpecCodec == InitCodec /\ [][NextCodec]_vars

\* A text with none of backslash, semicolon, comma, newline.
PlainText(text) == \A i \in 1..Len(text) : text[i] \notin {BS, ";", ",", LF}

SetOf(seq) == {seq[i] : i \in 1..Len(seq)}

\* C1: round trip.  For every task whose text contains none of backslash,
\* semicolon, comma or newline, decoding the output of encode yields, at the
\* same position, a task with the same text, date, category and completed
\* flag and a set-equal tags list.
C1_RoundTrip ==
  events.parsed =>
    \A i \in 1..Len(inputTodos) :
      PlainText(inputTodos[i].text) =>
        /\ i <= Len(events.list)
        /\ events.list[i].text = inputTodos[i].text
        /\ events.list[i].date = inputTodos[i].date
        /\ events.list[i].category = inputTodos[i].category
        /\ events.list[i].completed = inputTodos[i].completed
        /\ SetOf(events.list[i].tags) = SetOf(inputTodos[i].tags)


(***************************************************************************)
(* Decoding documents of any make: the lines of an interchange document,   *)
(* the documents handed to parseICS and the run that decodes one.          *)
(***************************************************************************)
SummaryLine(text) == <<"S", "U", "M", "M", "A", "R", "Y", ":">> \o text

DtstartLine(value) == <<"D", "T", "S", "T", "A", "R", "T", ";", "V", "A", "L", "U", "E", "=", "D", "A", "T", "E", ":">> \o value

UidLine(uid) == <<"U", "I", "D", ":">> \o uid

\* A description line as a third-party calendar writes it: the sub-fields
\* separated by one backslash and n.
DescriptionLine(category, tags, completed) == <<"D", "E", "S", "C", "R", "I", "P", "T", "I", "O", "N", ":", "C", "a", "t", "e", "g", "o", "r", "y", ":", " ">> \o category \o <<BS, "n">> \o <<"T", "a", "g", "s", ":", " ">> \o tags \o <<BS, "n">> \o <<"C", "o", "m", "p", "l", "e", "t", "e", "d", ":", " ">> \o completed

StatusLine(value) == <<"S", "T", "A", "T", "U", "S", ":">> \o value

CategoriesLine(value) == <<"C", "A", "T", "E", "G", "O", "R", "I", "E", "S", ":">> \o value

Day1 == <<"2", "0", "2", "4", "0", "3", "1", "0">>

\* Event blocks and stray lines a document is made of: a whole event, an
\* event without DTSTART, without SUMMARY, with an empty SUMMARY, with a
\* date and time, with a date that is not 8 digits, lines outside of any
\* event, and an event that is not closed.
BlockKinds ==
  { <<BEGIN_VEVENT, UidLine(<<"7">>), SummaryLine(<<"a">>), DtstartLine(Day1), END_VEVENT>>,
    <<BEGIN_VEVENT, SummaryLine(<<"b">>), END_VEVENT>>,
    <<BEGIN_VEVENT, DtstartLine(Day1), END_VEVENT>>,
    <<BEGIN_VEVENT, SummaryLine(<<>>), DtstartLine(Day1), END_VEVENT>>,
    <<BEGIN_VEVENT, SummaryLine(<<"c">>), <<"D", "T", "S", "T", "A", "R", "T", ":", "2", "0", "2", "4", "0", "3", "1", "1", "T", "0", "9", "0", "0", "0", "0", "Z">>, <<" ">> \o END_VEVENT>>,
    <<BEGIN_VEVENT, SummaryLine(<<"d">>), <<"D", "T", "S", "T", "A", "R", "T", ":", "2", "0", "2", "4", "-", "0", "3", "-", "1", "0">>, END_VEVENT>>,
    <<<<"j", "u", "n", "k">>, END_VEVENT, SummaryLine(<<"z">>)>>,
    <<BEGIN_VEVENT, SummaryLine(<<"e">>), DtstartLine(Day1)>> }

MaxBlocks == 2

\* The property lines that set the completed flag or the category.
PropertyLines ==
  { DescriptionLine(<<"w", "o", "r", "k">>, <<"x">>, <<"Y", "e", "s">>), DescriptionLine(<<"h", "e", "a", "l", "t", "h">>, <<"y">>, <<"N", "o">>),
    StatusLine(COMPLETED), StatusLine(<<"C", "O", "N", "F", "I", "R", "M", "E", "D">>), CategoriesLine(<<"h", "o", "m", "e">>), CategoriesLine(<<"e", "r", "r", "a", "n", "d", "s">>) }

MaxProps == 2

\* One event with its text, its date and some property lines.
PropertyBlocks == {<<BEGIN_VEVENT, SummaryLine(<<"a">>), DtstartLine(Day1)>> \o props \o <<END_VEVENT>> : props \in UNION {[1..n -> PropertyLines] : n \in 0..MaxProps}}

\* The documents decoded: blocks in a row, ended by LF or by CR LF, and
\* single events with property lines.
Documents ==
  {Join(Concat(blocks), eol) : blocks \in UNION {[1..n -> BlockKinds] : n \in 1..MaxBlocks}, eol \in {<<LF>>, <<CR, LF>>}}
    \cup {Join(lines, <<CR, LF>>) : lines \in PropertyBlocks}

InitDecode ==
  /\ now = BaseDay * 24 + 13
  /\ tz = "UTC"
  /\ todos = <<>>
  /\ lastCheck = NoValue
  /\ storedTodos = NothingStored
  /\ roll = NoRoll
  /\ ops = 0
  /\ inputTodos = <<>>
  /\ icsContent \in Documents
  /\ events = NotParsed
  /\ viewYear = LocalYear(now, tz)
  /\ viewMonth = LocalMonth(now, tz)
  /\ tagFilter = <<>>
  /\ calendar = NoCalendar
  /\ overview = NoOverview

\* The document is decoded again.
Reparse ==
  /\ events.parsed
  /\ events' = NotParsed
  /\ UNCHANGED <<now, tz, appVars, inputTodos, icsContent, viewVars>>

NextDecode == Parse \/ Reparse

SpecDecode == InitDecode /\ [][NextDecode]_vars

(***************************************************************************)
(* The task store: loading, saving, the user's operations and the daily    *)
(* rollover, as the component TodoCalendarApp runs them.                   *)
(***************************************************************************)
\* new Date().toISOString().split("T")[0]: the UTC date of the clock.
Today(clock) == ISODate(clock \div 24)

\* loadTodosFromStorage: the stored array, the seed when nothing is stored or
\* what is stored is no array.
LoadTodosFromStorage(stored) == IF stored.kind = "array" THEN stored.value ELSE mockTodos

\* The test with the completed flag dropped.
IsUncompletedFromPast_AnyStatus(todo, today) == DateLess(DateParse(todo.date), DateParse(today))

\* The test with "earlier than today" turned into "other than today".
IsUncompletedFromPast_NotToday(todo, today) == ~todo.completed /\ todo.date # today

\* The test of the filter and of the map of autoMoveUncompletedTasks:
\* !todo.completed && todoDate < todayDate
IsUncompletedFromPast(todo, today) == ~todo.completed /\ DateLess(DateParse(todo.date), DateParse(today))

\* autoMoveUncompletedTasks without the once-per-day gate.
AutoMoveOn_NoGate(list, marker, today) ==
  IF Len(SelectSeq(list, LAMBDA todo : IsUncompletedFromPast(todo, today))) > 0
  THEN [todos |-> [i \in 1..Len(list) |-> IF IsUncompletedFromPast(list[i], today) THEN [list[i] EXCEPT !.date = today] ELSE list[i]],
        lastCheck |-> today, today |-> today, passed |-> TRUE]
  ELSE [todos |-> list, lastCheck |-> today, today |-> today, passed |-> TRUE]

\* autoMoveUncompletedTasks writing the marker only when it moved a task.
AutoMoveOn_NoMarkerOnNoOp(list, marker, today) ==
  IF marker = today
  THEN [todos |-> list, lastCheck |-> marker, today |-> today, passed |-> FALSE]
  ELSE IF Len(SelectSeq(list, LAMBDA todo : IsUncompletedFromPast(todo, today))) > 0
  THEN [todos |-> [i \in 1..Len(list) |-> IF IsUncompletedFromPast(list[i], today) THEN [list[i] EXCEPT !.date = today] ELSE list[i]],
        lastCheck |-> today, today |-> today, passed |-> TRUE]
  ELSE [todos |-> list, lastCheck |-> marker, today |-> today, passed |-> TRUE]

\* autoMoveUncompletedTasks from the gate on, `today` being read: what it
\* sets the collection and the marker to, and whether it passed the gate.
AutoMoveOn(list, marker, today) ==
  IF marker = today
  THEN [todos |-> list, lastCheck |-> marker, today |-> today, passed |-> FALSE]
  ELSE IF Len(SelectSeq(list, LAMBDA todo : IsUncompletedFromPast(todo, today))) > 0
  THEN [todos |-> [i \in 1..Len(list) |-> IF IsUncompletedFromPast(list[i], today) THEN [list[i] EXCEPT !.date = today] ELSE list[i]],
        lastCheck |-> today, today |-> today, passed |-> TRUE]
  ELSE [todos |-> list, lastCheck |-> today, today |-> today, passed |-> TRUE]

\* autoMoveUncompletedTasks on the collection `list` with the stored marker
\* `marker`: the clock is read once.
AutoMoveUncompletedTasks(list, marker, clock) == AutoMoveOn(list, marker, Today(clock))

\* The record kept of a call of autoMoveUncompletedTasks: r is what it
\* returned for the collection `list` and the marker `marker`.
RollRecord(r, list, marker, previous) ==
  [called |-> TRUE, today |-> r.today, prevToday |-> previous.today,
   passed |-> r.passed, pre |-> list, post |-> r.todos, lastCheckBefore |-> marker, lastCheckAfter |-> r.lastCheck]

\* A call of autoMoveUncompletedTasks on the collection `list` returned r:
\* setTodos(updatedTodos) and localStorage.setItem(lastCheckKey, today) take
\* effect, and the save effect stores the collection it is given.
Rolled(list, r, saved) ==
  /\ todos' = r.todos
  /\ lastCheck' = r.lastCheck
  /\ roll' = RollRecord(r, list, lastCheck, roll)
  /\ storedTodos' = IF saved \/ r.todos # list THEN [kind |-> "array", value |-> r.todos] ELSE storedTodos

\* A commit whose save effect stores the collection even when it is empty.
Commit_SaveAlways(prevLength, next) ==
  IF Len(next) # prevLength /\ Len(next) > 0
  THEN Rolled(next, AutoMoveUncompletedTasks(next, lastCheck, now), TRUE)
  ELSE /\ todos' = next
       /\ storedTodos' = [kind |-> "array", value |-> next]
       /\ roll' = NoCall(roll)
       /\ UNCHANGED lastCheck

\* What React commits once a handler has set the collection to `next`: the
\* effect on [todos.length] calls autoMoveUncompletedTasks when the length
\* changed and is positive, and the save effect stores every non-empty
\* collection.
Commit(prevLength, next) ==
  IF Len(next) # prevLength /\ Len(next) > 0
  THEN Rolled(next, AutoMoveUncompletedTasks(next, lastCheck, now), TRUE)
  ELSE /\ todos' = next
       /\ storedTodos' = IF Len(next) > 0 THEN [kind |-> "array", value |-> next] ELSE storedTodos
       /\ roll' = NoCall(roll)
       /\ UNCHANGED lastCheck

MaxTodos == 3

MaxOps == 2

\* One more operation of the user, while the run may still take one.
UserOp == ops < MaxOps /\ ops' = ops + 1

MaxDays == 1

MaxStored == 2

StartHour == 9

\* The dates the form's date input is given.
FormDates == {ISODate(BaseDay + d) : d \in {0 - 1, 1}}

IdsOf(list) == {list[i].id : i \in 1..Len(list)}

\* addTodo without editingId: a new task is appended.
AddTodo ==
  /\ UserOp
  /\ Len(todos) < MaxTodos
  /\ \E text \in {<<"a">>, <<" ">>}, tags \in {<<>>}, pinTask \in BOOLEAN, date \in FormDates :
       /\ Trim(text) # <<>>
       /\ Commit(Len(todos), Append(todos, Todo(NumStr(now), text, FALSE, date, personal, tags, pinTask)))
  /\ UNCHANGED <<now, tz, codecVars, viewVars>>

\* addTodo with editingId: text, date, tags and pinned of the task are replaced.
EditTodo ==
  /\ UserOp
  /\ \E editingId \in IdsOf(todos), text \in {<<"b">>}, tags \in {<< <<"y">> >>}, pinTask \in {TRUE}, date \in FormDates :
       /\ Trim(text) # <<>>
       /\ Commit(Len(todos), [i \in 1..Len(todos) |-> IF todos[i].id = editingId THEN [todos[i] EXCEPT !.text = text, !.date = date, !.tags = tags, !.pinned = pinTask] ELSE todos[i]])
  /\ UNCHANGED <<now, tz, codecVars, viewVars>>

ToggleTodo ==
  /\ UserOp
  /\ \E id \in IdsOf(todos) :
       Commit(Len(todos), [i \in 1..Len(todos) |-> IF todos[i].id = id THEN [todos[i] EXCEPT !.completed = ~@] ELSE todos[i]])
  /\ UNCHANGED <<now, tz, codecVars, viewVars>>

DeleteTodo ==
  /\ UserOp
  /\ \E id \in IdsOf(todos) :
       Commit(Len(todos), SelectSeq(todos, LAMBDA todo : todo.id # id))
  /\ UNCHANGED <<now, tz, codecVars, viewVars>>

\* handleFocus / handleVisibilityChange: the rollover is tried whenever the
\* window gets the focus or becomes visible and the collection is not empty.
Focus ==
  /\ Len(todos) > 0
  /\ Rolled(todos, AutoMoveUncompletedTasks(todos, lastCheck, now), FALSE)
  /\ UNCHANGED <<now, tz, ops, codecVars, viewVars>>

\* The page is loaded again: the component starts from useState([]) and the
\* mount effect sets the collection to loadTodosFromStorage().
Reload ==
  /\ Commit(0, LoadTodosFromStorage(storedTodos))
  /\ UNCHANGED <<now, tz, ops, codecVars, viewVars>>

\* Midnight (UTC) passes.
NextDay ==
  /\ now \div 24 < BaseDay + MaxDays
  /\ now' = (now \div 24 + 1) * 24 + StartHour
  /\ roll' = NoCall(roll)
  /\ UNCHANGED <<tz, todos, lastCheck, storedTodos, ops, codecVars, viewVars>>

\* The tasks a stored collection is made of.
StoredTasks ==
  {Todo(<<"s">>, <<"t">>, completed, ISODate(BaseDay + d), <<"w", "o", "r", "k">>, << <<"x">> >>, completed) : completed \in BOOLEAN, d \in {0 - 1, 1}} \ {Todo(<<"s">>, <<"t">>, TRUE, ISODate(BaseDay + 1), <<"w", "o", "r", "k">>, << <<"x">> >>, TRUE)}

StoredInputs ==
  {NothingStored, [kind |-> "malformed"]}
    \cup {[kind |-> "array", value |-> [i \in 1..Len(f) |-> [f[i] EXCEPT !.id = NumStr(i)]]] : f \in UNION {[1..n -> StoredTasks] : n \in 1..MaxStored}}

MarkerInputs == {NoValue} \cup {ISODate(BaseDay + d) : d \in {0 - 1, 0}}

\* The state once the mount effects have run on the collection `loaded`
\* (which is never empty), r being what autoMoveUncompletedTasks returned.
Mounted(loaded, marker, r) ==
  /\ todos = r.todos
  /\ lastCheck = r.lastCheck
  /\ roll = RollRecord(r, loaded, marker, NoRoll)
  /\ storedTodos = [kind |-> "array", value |-> r.todos]

\* The first load of the page.
Init ==
  /\ now = BaseDay * 24 + StartHour
  /\ tz = "UTC"
  /\ \E stored \in StoredInputs, marker \in MarkerInputs :
       Mounted(LoadTodosFromStorage(stored), marker, AutoMoveUncompletedTasks(LoadTodosFromStorage(stored), marker, now))
  /\ ops = 0
  /\ inputTodos = <<>>
  /\ icsContent = NoValue
  /\ events = NotParsed
  /\ viewYear = LocalYear(now, tz)
  /\ viewMonth = LocalMonth(now, tz)
  /\ tagFilter = <<>>
  /\ calendar = NoCalendar
  /\ overview = NoOverview

Next == AddTodo \/ EditTodo \/ ToggleTodo \/ DeleteTodo \/ Focus \/ Reload \/ NextDay

Spec == Init /\ [][Next]_vars

(***************************************************************************)
(* The overview: renderOverviewView and the filter.                        *)
(***************************************************************************)
UpperCase == <<"A", "B", "C", "D", "E", "F", "G", "H", "I", "J", "K", "L", "M", "N", "O", "P", "Q", "R", "S", "T", "U", "V", "W", "X", "Y", "Z">>

LowerCase == <<"a", "b", "c", "d", "e", "f", "g", "h", "i", "j", "k", "l", "m", "n", "o", "p", "q", "r", "s", "t", "u", "v", "w", "x", "y", "z">>

LowerChar(c) == IF \E k \in 1..26 : UpperCase[k] = c THEN LowerCase[CHOOSE k \in 1..26 : UpperCase[k] = c] ELSE c

\* String.prototype.toLowerCase
ToLowerCase(s) == [i \in 1..Len(s) |-> LowerChar(s[i])]

\* String.prototype.includes
StrIncludes(s, p) == \E i \in 1..(Len(s) + 1) : OccursAt(s, p, i)

\* Array.prototype.includes
Includes(arr, x) == \E k \in 1..Len(arr) : arr[k] = x

\* getTodosForDate on the collection `list`
GetTodosForDate(list, date) == SelectSeq(list, LAMBDA todo : todo.date = date)

\* getFilteredTodos with the filter string `filter`
GetFilteredTodos(todoList, filter) ==
  IF Trim(filter) = <<>> THEN todoList
  ELSE SelectSeq(todoList, LAMBDA todo :
         \/ \E k \in 1..Len(todo.tags) : StrIncludes(ToLowerCase(todo.tags[k]), ToLowerCase(filter))
         \/ StrIncludes(ToLowerCase(todo.text), ToLowerCase(filter)))

\* const date = new Date(); date.setDate(date.getDate() + i);
\* date.toISOString().split("T")[0]: i days are added on the wall clock of
\* the zone, and the date is read off in UTC.
OffsetDate(clock, zone, i) == ISODate(UtcOfLocal(zone, LocalTime(zone, clock) + 24 * i) \div 24)

\* The dates one of the three loops pushes, i running from first to last.
WindowDates(clock, zone, first, last) == [k \in 1..(last - first + 1) |-> OffsetDate(clock, zone, first + k - 1)]

\* What renderOverviewView computes from the date of today and the three
\* arrays of dates.
OverviewOf(list, filter, clocks, today, next7Days, next28Days, next365Days) ==
  [rendered |-> TRUE, clocks |-> clocks, tagFilter |-> filter, today |-> today,
   todayTodos |-> GetFilteredTodos(GetTodosForDate(list, today), filter),
   next7Days |-> next7Days,
   next7DaysTodos |-> GetFilteredTodos(SelectSeq(list, LAMBDA todo : Includes(next7Days, todo.date)), filter),
   next28Days |-> next28Days,
   next28DaysTodos |-> GetFilteredTodos(SelectSeq(list, LAMBDA todo : Includes(next28Days, todo.date)), filter),
   next365Days |-> next365Days,
   next365DaysTodos |-> GetFilteredTodos(SelectSeq(list, LAMBDA todo : Includes(next365Days, todo.date) /\ todo.pinned), filter)]

\* renderOverviewView: clocks[1] is what new Date() gives for `today`,
\* clocks[2], clocks[3] and clocks[4] what it gives in the three loops.
RenderOverviewView(list, filter, zone, clocks) ==
  OverviewOf(list, filter, clocks, Today(clocks[1]), WindowDates(clocks[2], zone, 1, 7),
             WindowDates(clocks[3], zone, 8, 28), WindowDates(clocks[4], zone, 29, 365))

\* The day overview runs start from.
OverviewDay == BaseDay - 7

\* The tasks of an overview run are dated these many days after OverviewDay;
\* the 245th day after it is the first Sunday of November.
OverviewOffsets == <<0 - 1, 0, 1, 7, 8, 28, 29, 245, 365, 366>>

\* One unpinned and one pinned task on each of these days.
OverviewTasks ==
  [k \in 1..(2 * Len(OverviewOffsets)) |->
     Todo(NumStr(k), <<"t">>, FALSE, ISODate(OverviewDay + OverviewOffsets[(k + 1) \div 2]), personal,
          IF k % 2 = 0 THEN << <<"x">> >> ELSE <<>>, k % 2 = 0)]

MaxHours == 2

\* Hours since 23:00 UTC, the hour an overview run starts at.
HoursRun(clock) == (clock + 1) % 24

\* The clock values one rendering reads: the clock may advance between the
\* reading of today and each of the three loops.
ClockReads(clock) ==
  {r \in {<<clock, clock + a, clock + b, clock + c>> : a \in {0, 1}, b \in {0, 1}, c \in {0, 1}} : r[2] <= r[3] /\ r[3] <= r[4]}

Filters == {<<>>, <<" ">>, <<"X">>}

InitOverview ==
  /\ now \in {(OverviewDay - 1) * 24 + 23, OverviewDay * 24 + 23}
  /\ tz \in TimeZones
  /\ todos = OverviewTasks
  /\ lastCheck = NoValue
  /\ storedTodos = NothingStored
  /\ roll = NoRoll
  /\ ops = 0
  /\ inputTodos = <<>>
  /\ icsContent = NoValue
  /\ events = NotParsed
  /\ viewYear = LocalYear(now, tz)
  /\ viewMonth = LocalMonth(now, tz)
  /\ tagFilter = <<>>
  /\ calendar = NoCalendar
  /\ overview = NoOverview

\* The overview is rendered.
RenderOverview ==
  /\ \E clocks \in ClockReads(now) :
       /\ clocks[4] = now \/ HoursRun(now) < MaxHours
       /\ overview' = RenderOverviewView(todos, tagFilter, tz, clocks)
       /\ now' = clocks[4]
  /\ UNCHANGED <<tz, appVars, codecVars, viewYear, viewMonth, tagFilter, calendar>>

\* onChange of the filter input: setTagFilter(e.target.value), and the
\* overview is rendered with the new filter.
SetTagFilter ==
  /\ \E value \in Filters \ {tagFilter} :
       /\ tagFilter' = value
       /\ overview' = RenderOverviewView(todos, value, tz, <<now, now, now, now>>)
  /\ UNCHANGED <<now, tz, appVars, codecVars, viewYear, viewMonth, calendar>>

\* An hour passes.
Tick ==
  /\ HoursRun(now) < MaxHours
  /\ now' = now + 1
  /\ UNCHANGED <<tz, appVars, codecVars, viewVars>>

NextOverview == RenderOverview \/ SetTagFilter \/ Tick

SpecOverview == InitOverview /\ [][NextOverview]_vars

(***************************************************************************)
(* The month grid: renderCalendarView and the navigation of months.        *)
(***************************************************************************)
\* Math.floor in the place of Math.ceil.
TotalCells_Floor(daysInMonth, daysFromPrevMonth) == ((daysInMonth + daysFromPrevMonth) \div 7) * 7

\* Math.ceil((daysInMonth + daysFromPrevMonth) / 7) * 7
TotalCells(daysInMonth, daysFromPrevMonth) == ((daysInMonth + daysFromPrevMonth + 6) \div 7) * 7

\* `${year}-${String(month + 1).padStart(2, "0")}-${String(day).padStart(2, "0")}`
DateString(year, month, day) == NumStr(year) \o <<"-">> \o PadStart(NumStr(month + 1), 2) \o <<"-">> \o PadStart(NumStr(day), 2)

CalendarDay(date, day, isCurrentMonth, isToday) == [date |-> date, day |-> day, isCurrentMonth |-> isCurrentMonth, isToday |-> isToday]

\* prevMonth.getDate() for prevMonth = new Date(viewYear, viewMonth - 1, 0):
\* day 0 of the month before the focused one.
PrevMonthDate(year, month) == CivilFromDays(MakeDay(year, month - 1, 0)).day

\* The first loop: i runs from daysFromPrevMonth - 1 down to 0.
PrevMonthDays(year, month, daysFromPrevMonth, prevDate) ==
  [k \in 1..daysFromPrevMonth |->
     CalendarDay(DateString(IF month = 0 THEN year - 1 ELSE year, IF month = 0 THEN 11 ELSE month - 1, prevDate - (daysFromPrevMonth - k)),
                 prevDate - (daysFromPrevMonth - k), FALSE, FALSE)]

\* The second loop.
CurrentMonthDays(year, month, daysInMonth, today) ==
  [day \in 1..daysInMonth |-> CalendarDay(DateString(year, month, day), day, TRUE, DateString(year, month, day) = today)]

\* The third loop.
NextMonthDays(year, month, remainingCells) ==
  [day \in 1..remainingCells |->
     CalendarDay(DateString(IF month = 11 THEN year + 1 ELSE year, IF month = 11 THEN 0 ELSE month + 1, day), day, FALSE, FALSE)]

CalendarDays(year, month, daysInMonth, daysFromPrevMonth, today) ==
  PrevMonthDays(year, month, daysFromPrevMonth, PrevMonthDate(year, month))
    \o CurrentMonthDays(year, month, daysInMonth, today)
    \o NextMonthDays(year, month, TotalCells(daysInMonth, daysFromPrevMonth) - (daysFromPrevMonth + daysInMonth))

\* renderCalendarView for the focused month, the clock being read once.
RenderCalendarView(year, month, clock) ==
  [rendered |-> TRUE, year |-> year, month |-> month, today |-> Today(clock),
   cells |-> CalendarDays(year, month, CivilFromDays(MakeDay(year, month + 1, 0)).day, WeekDay(MakeDay(year, month, 1)), Today(clock))]

MaxNav == 14

\* Months between the focused month and the month of BaseDay.
MonthsAway(year, month) == 12 * (year - CivilFromDays(BaseDay).year) + month - (CivilFromDays(BaseDay).month - 1)

InitGrid ==
  /\ now \in {(BaseDay - 9) * 24 + StartHour, BaseDay * 24 + StartHour}
  /\ tz \in TimeZones
  /\ todos = <<>>
  /\ lastCheck = NoValue
  /\ storedTodos = NothingStored
  /\ roll = NoRoll
  /\ ops = 0
  /\ inputTodos = <<>>
  /\ icsContent = NoValue
  /\ events = NotParsed
  /\ viewYear = LocalYear(now, tz)
  /\ viewMonth = LocalMonth(now, tz)
  /\ tagFilter = <<>>
  /\ calendar = NoCalendar
  /\ overview = NoOverview

\* The focused month is set and the calendar view is rendered with it.
Focused(year, month) ==
  /\ viewYear' = year
  /\ viewMonth' = month
  /\ calendar' = RenderCalendarView(year, month, now)
  /\ UNCHANGED <<now, tz, appVars, codecVars, tagFilter, overview>>

\* onClick of the button "previous month"
PrevMonth ==
  /\ calendar.rendered
  /\ MonthsAway(viewYear, viewMonth) > 0 - MaxNav
  /\ IF viewMonth = 0 THEN Focused(viewYear - 1, 11) ELSE Focused(viewYear, viewMonth - 1)

\* onClick of the button "next month"
NextMonth ==
  /\ calendar.rendered
  /\ MonthsAway(viewYear, viewMonth) < MaxNav
  /\ IF viewMonth = 11 THEN Focused(viewYear + 1, 0) ELSE Focused(viewYear, viewMonth + 1)

\* onClick of the logo: the month of today is focused and the calendar view
\* is shown.
GoToday ==
  /\ Focused(LocalYear(now, tz), LocalMonth(now, tz))

\* onClick of the view button "Calendar": the calendar view is rendered.
ShowCalendar ==
  /\ Focused(viewYear, viewMonth)

NextGrid == PrevMonth \/ NextMonth \/ GoToday \/ ShowCalendar \/ NextDay

SpecGrid == InitGrid /\ [][NextGrid]_vars

(***************************************************************************)
(* handleImport                                                            *)
(***************************************************************************)
\* The documents the file input is given.  The first holds one event, dated
\* the day before the first day of the run, with no DESCRIPTION, STATUS or
\* CATEGORIES line.  The second holds a completed event and an event whose
\* date-start value is 8 digits that are no date.
ImportFiles ==
  { Join(<<BEGIN_VEVENT, UidLine(<<"7">>), SummaryLine(<<"p">>), DtstartLine(<<"2", "0", "2", "4", "0", "3", "0", "9">>), END_VEVENT>>, <<CR, LF>>),
    Join(<<BEGIN_VEVENT, UidLine(<<"8">>), SummaryLine(<<"q">>), DtstartLine(<<"2", "0", "2", "4", "0", "3", "1", "1">>), StatusLine(COMPLETED), END_VEVENT,
           BEGIN_VEVENT, UidLine(<<"9">>), SummaryLine(<<"r">>), DtstartLine(<<"2", "0", "2", "4", "1", "3", "5", "0">>), END_VEVENT>>, <<CR, LF>>) }

\* The filter of handleImport:
\* Boolean(event.text && event.date && event.id && event.category !== undefined && event.tags)
IsTodo(event) == Truthy(event.text) /\ Truthy(event.date) /\ Truthy(event.id)

\* The map of handleImport: category and tags get their defaults, pinned
\* is false.
ImportedTodo(event) == [event EXCEPT !.category = IF Truthy(@) THEN @ ELSE personal, !.pinned = FALSE]

\* const newTodos = importedEvents.filter(...).map(...)
NewTodos(importedEvents) ==
  LET kept == SelectSeq(importedEvents, IsTodo)
  IN  [i \in 1..Len(kept) |-> ImportedTodo(kept[i])]

\* A file is being read; `chosen` is the collection of the moment it was
\* chosen.
Reading(chosen) == [parsed |-> FALSE, chosen |-> chosen]

\* The record kept of the last reader.onload: what parseICS returned, the
\* tasks made of it, the collection they were appended to and the clock.
Imported(importedEvents, prevTodos, clock) ==
  [parsed |-> TRUE, list |-> importedEvents, newTodos |-> NewTodos(importedEvents), prevTodos |-> prevTodos, clock |-> clock, chosen |-> events.chosen]

\* handleImport: a file is chosen and reader.readAsText(file) is started.
ChooseFile ==
  /\ UserOp
  /\ icsContent = NoValue \/ events.parsed
  /\ icsContent' \in ImportFiles
  /\ events' = Reading(todos)
  /\ roll' = NoCall(roll)
  /\ UNCHANGED <<now, tz, todos, lastCheck, storedTodos, inputTodos, viewVars>>

\* reader.onload appending to the collection of the moment the file was
\* chosen: setTodos([...todos, ...newTodos]).
Loaded_StaleClosure(importedEvents) ==
  /\ events' = Imported(importedEvents, todos, now)
  /\ Commit(Len(todos), events.chosen \o NewTodos(importedEvents))

\* reader.onload once parseICS(content) has returned importedEvents:
\* setTodos((prevTodos) => [...prevTodos, ...newTodos]) is committed.
Loaded(importedEvents) ==
  /\ events' = Imported(importedEvents, todos, now)
  /\ Commit(Len(todos), todos \o NewTodos(importedEvents))

\* reader.onload: the file is decoded and its tasks are appended.
FileLoaded ==
  /\ icsContent # NoValue
  /\ ~events.parsed
  /\ \E r \in [1..BeginCount(icsContent) -> RandomSuffixes] :
       Loaded(ParseICS(icsContent, [k \in 1..BeginCount(icsContent) |-> NumStr(now) \o r[k]]))
  /\ UNCHANGED <<now, tz, ops, inputTodos, icsContent, viewVars>>

\* What the store holds when the run starts: one task, completed on the
\* day before.
ImportStored == {s \in StoredInputs : s.kind = "array" /\ Len(s.value) = 1 /\ s.value[1].completed}

InitImport ==
  /\ now = BaseDay * 24 + StartHour
  /\ tz = "UTC"
  /\ \E stored \in ImportStored, marker \in MarkerInputs :
       Mounted(LoadTodosFromStorage(stored), marker, AutoMoveUncompletedTasks(LoadTodosFromStorage(stored), marker, now))
  /\ ops = 0
  /\ inputTodos = <<>>
  /\ icsContent = NoValue
  /\ events = NotParsed
  /\ viewYear = LocalYear(now, tz)
  /\ viewMonth = LocalMonth(now, tz)
  /\ tagFilter = <<>>
  /\ calendar = NoCalendar
  /\ overview = NoOverview

NextImport == ChooseFile \/ FileLoaded \/ AddTodo \/ EditTodo \/ ToggleTodo \/ DeleteTodo \/ Focus \/ NextDay

SpecImport == InitImport /\ [][NextImport]_vars

\* ---------------------------------------------------------------------
\* Rollover properties, stated on the record `roll` of the call the last
\* step made.

\* Year, month and day of a YYYY-MM-DD string, read off its digits.
DateTriple(s) == <<StrNum(SubSeq(s, 1, 4)), StrNum(SubSeq(s, 6, 7)), StrNum(SubSeq(s, 9, 10))>>

\* a is a calendar day strictly before b (both YYYY-MM-DD).
TripleEarlier(a, b) ==
  \/ a[1] < b[1]
  \/ a[1] = b[1] /\ a[2] < b[2]
  \/ a[1] = b[1] /\ a[2] = b[2] /\ a[3] < b[3]
Earlier(a, b) == TripleEarlier(DateTriple(a), DateTriple(b))

\* C2: rollover idempotence. A call of the rollover that reads the same
\* today as the call before it is stopped by the gate and leaves the
\* collection and the marker as they were; and no call modifies a task
\* whose date already is today.
C2_Idempotent ==
  roll.called =>
    /\ roll.prevToday = roll.today =>
         /\ ~roll.passed
         /\ roll.post = roll.pre
         /\ todos = roll.pre
         /\ roll.lastCheckAfter = roll.lastCheckBefore
         /\ lastCheck = roll.lastCheckBefore
    /\ Len(roll.post) = Len(roll.pre)
    /\ \A i \in 1..Len(roll.pre) : roll.pre[i].date = roll.today => roll.post[i] = roll.pre[i]

\* A second call on the same day found an uncompleted task of the past in
\* the collection (added after the first call) and a task dated today.
C2_Witness ==
  /\ roll.called
  /\ roll.prevToday = roll.today
  /\ \E i \in 1..Len(roll.pre) : ~roll.pre[i].completed /\ Earlier(roll.pre[i].date, roll.today)
  /\ \E i \in 1..Len(roll.pre) : roll.pre[i].date = roll.today

\* C3: a rollover run that passes the gate gives exactly the collection
\* it was given with the date of every uncompleted task dated strictly
\* before today replaced by today: number, order and every other field
\* are kept, and completed tasks and tasks of today or later are unchanged.
C3_RolloverExact ==
  (roll.called /\ roll.passed) =>
    /\ Len(roll.post) = Len(roll.pre)
    /\ todos = roll.post
    /\ \A i \in 1..Len(roll.pre) :
         roll.post[i] =
           IF ~roll.pre[i].completed /\ Earlier(roll.pre[i].date, roll.today)
           THEN [roll.pre[i] EXCEPT !.date = roll.today]
           ELSE roll.pre[i]

\* A run passed the gate on a collection holding an uncompleted task of
\* the past (moved), a completed task of the past and an uncompleted task
\* of today or later.
C3_Witness ==
  /\ roll.called
  /\ roll.passed
  /\ \E i \in 1..Len(roll.pre) : ~roll.pre[i].completed /\ Earlier(roll.pre[i].date, roll.today) /\ roll.post[i].date = roll.today
  /\ \E i \in 1..Len(roll.pre) : roll.pre[i].completed /\ Earlier(roll.pre[i].date, roll.today)
  /\ \E i \in 1..Len(roll.pre) : ~roll.pre[i].completed /\ ~Earlier(roll.pre[i].date, roll.today)

\* C4: every rollover run that finds the marker different from today
\* ends with the marker equal to today, whether or not a task was moved.
C4_MarkerWritten ==
  (roll.called /\ roll.lastCheckBefore # roll.today) =>
    /\ roll.passed
    /\ roll.lastCheckAfter = roll.today
    /\ lastCheck = roll.today

\* A run passed the gate on a day with nothing to move.
C4_Witness ==
  /\ roll.called
  /\ roll.lastCheckBefore # roll.today
  /\ roll.post = roll.pre
  /\ lastCheck = roll.today

\* C5: rollover monotonicity. Every call of the rollover leaves each
\* task's date equal to or later than it was before the call.
C5_Monotonic ==
  roll.called =>
    /\ Len(roll.post) = Len(roll.pre)
    /\ \A i \in 1..Len(roll.pre) : ~Earlier(roll.post[i].date, roll.pre[i].date)

\* A call moved one task forward and left a task of a later day alone.
C5_Witness ==
  /\ roll.called
  /\ \E i \in 1..Len(roll.pre) : Earlier(roll.pre[i].date, roll.post[i].date)
  /\ \E i \in 1..Len(roll.pre) : Earlier(roll.today, roll.pre[i].date) /\ roll.post[i].date = roll.pre[i].date

\* ---------------------------------------------------------------------
\* Overview properties, stated on the record `overview` of the last
\* rendering.

\* The rendering read one value of the clock.
SteadyClock == overview.rendered /\ \A k \in 1..4 : overview.clocks[k] = overview.clocks[1]

\* The dates first..last days after the date `ref`.
DaysAfter(ref, first, last) == {ISODate(DateParse(ref) + i) : i \in first..last}

\* C6: window disjointness and coverage. The dates enumerated for next7,
\* next28 and next365 are pairwise disjoint, none is the reference date,
\* and together they are each of the 365 days after the reference date
\* exactly once.
C6_WindowsDisjointCover ==
  SteadyClock =>
    /\ SetOf(overview.next7Days) \cap SetOf(overview.next28Days) = {}
    /\ SetOf(overview.next7Days) \cap SetOf(overview.next365Days) = {}
    /\ SetOf(overview.next28Days) \cap SetOf(overview.next365Days) = {}
    /\ overview.today \notin SetOf(overview.next7Days) \cup SetOf(overview.next28Days) \cup SetOf(overview.next365Days)
    /\ SetOf(overview.next7Days) \cup SetOf(overview.next28Days) \cup SetOf(overview.next365Days) = DaysAfter(overview.today, 1, 365)
    /\ Cardinality(SetOf(overview.next7Days)) = Len(overview.next7Days)
    /\ Cardinality(SetOf(overview.next28Days)) = Len(overview.next28Days)
    /\ Cardinality(SetOf(overview.next365Days)) = Len(overview.next365Days)

\* The tasks shown in some window of the overview.
Shown == SetOf(overview.todayTodos) \cup SetOf(overview.next7DaysTodos) \cup SetOf(overview.next28DaysTodos) \cup SetOf(overview.next365DaysTodos)

\* C7: with an empty filter, next365Pinned holds exactly the pinned tasks
\* dated 29 to 365 days after the reference date; an unpinned task of that
\* range, and any task dated before the reference date or more than 365
\* days after it, is in no window of the overview.
C7_Next365Pinned ==
  (SteadyClock /\ overview.tagFilter = <<>>) =>
    /\ overview.next365DaysTodos = SelectSeq(todos, LAMBDA todo : todo.pinned /\ todo.date \in DaysAfter(overview.today, 29, 365))
    /\ \A i \in 1..Len(todos) :
         (\/ ~todos[i].pinned /\ todos[i].date \in DaysAfter(overview.today, 29, 365)
          \/ DateParse(todos[i].date) < DateParse(overview.today)
          \/ DateParse(todos[i].date) > DateParse(overview.today) + 365)
           => todos[i] \notin Shown

\* ---------------------------------------------------------------------
\* Month-grid properties, stated on the record `calendar` of the last
\* rendering.

\* The day of the week (0 is Sunday) of a civil date, by the table method.
MonthKeys == <<0, 3, 2, 5, 0, 3, 5, 1, 4, 6, 2, 4>>

DayOfWeekIn(yy, m, d) == (yy + yy \div 4 - yy \div 100 + yy \div 400 + MonthKeys[m] + d) % 7

DayOfWeek(y, m, d) == DayOfWeekIn(IF m < 3 THEN y - 1 ELSE y, m, d)

MonthLengths == <<31, 28, 31, 30, 31, 30, 31, 31, 30, 31, 30, 31>>

LengthOfMonth(y, m) == IF m = 2 /\ ((y % 4 = 0 /\ y % 100 # 0) \/ y % 400 = 0) THEN 29 ELSE MonthLengths[m]

\* The grid `cells` of the month m (1..12) of year y, W being the weekday
\* of its first day and D its number of days: the least multiple of 7 that
\* holds D + W cells, W cells of another month, then day 1 of the month.
GridExact(cells, y, m, W, D) ==
  /\ Len(cells) % 7 = 0
  /\ Len(cells) >= D + W
  /\ Len(cells) - 7 < D + W
  /\ \A i \in 1..W : ~cells[i].isCurrentMonth
  /\ cells[W + 1].isCurrentMonth
  /\ cells[W + 1].day = 1
  /\ cells[W + 1].date = ISODate(DaysFromCivil(y, m, 1))

\* C8: month-grid exactness. The grid of a focused month with first-weekday
\* offset W and D days has ceil((D + W) / 7) * 7 cells, its first W cells
\* are marked as not of the focused month, and cell W + 1 is day 1 of the
\* focused month.
C8_GridExact ==
  calendar.rendered =>
    GridExact(calendar.cells, calendar.year, calendar.month + 1,
              DayOfWeek(calendar.year, calendar.month + 1, 1), LengthOfMonth(calendar.year, calendar.month + 1))

\* A grid of six rows with leading and trailing cells was rendered.
C8_Witness ==
  /\ calendar.rendered
  /\ Len(calendar.cells) = 42
  /\ ~calendar.cells[1].isCurrentMonth
  /\ ~calendar.cells[42].isCurrentMonth

\* The day number of the first cell of the grid of a focused month.
FirstCellDay(y, m) == DaysFromCivil(y, m, 1) - DayOfWeek(y, m, 1)

\* C9: the cells of the month grid are consecutive calendar days: the
\* leading cells are the last days of the previous month, the trailing
\* cells the first days of the next month, and every cell's date string is
\* a valid calendar date.
C9_ConsecutiveDays ==
  calendar.rendered =>
    \A i \in 1..Len(calendar.cells) :
      /\ IsCalendarDate(calendar.cells[i].date)
      /\ calendar.cells[i].date = ISODate(FirstCellDay(calendar.year, calendar.month + 1) + i - 1)

\* C10: a cell's isToday flag is true if and only if the cell's date is
\* the current date, in leading and trailing cells as in the cells of the
\* focused month.
C10_IsToday ==
  calendar.rendered =>
    \A i \in 1..Len(calendar.cells) :
      calendar.cells[i].isToday <=> (calendar.cells[i].date = calendar.today)

\* ---------------------------------------------------------------------
\* Decoder properties, stated on the document `icsContent` and on the
\* list `events` that parseICS returned for it.

\* The lines of a document, each trimmed as the decoder reads it.
Lines(icsText) == CHOOSE t \in {[i \in 1..Len(raw) |-> Trim(raw[i])] : raw \in {SplitLines(icsText)}} : TRUE

IsBegin(line) == line = BEGIN_VEVENT

IsEnd(line) == line = END_VEVENT

\* The line b opens the event that the line e closes.
Opens(lines, b, e) ==
  /\ b < e
  /\ IsBegin(lines[b])
  /\ IsEnd(lines[e])
  /\ \A j \in (b + 1)..(e - 1) : ~IsBegin(lines[j]) /\ ~IsEnd(lines[j])

\* The end markers that close an event, and the line that opened it.
BlockEnds(lines) == {e \in 1..Len(lines) : \E b \in 1..(e - 1) : Opens(lines, b, e)}

BeginOf(lines, e) == CHOOSE b \in 1..(e - 1) : Opens(lines, b, e)

\* The line is a property line whose name starts with `name`.
Property(line, name) == StartsWith(line, name) /\ \E i \in (Len(name) + 1)..Len(line) : line[i] = ":"

\* What follows the first colon of a trimmed line.
AfterColon(t) == SubSeq(t, Min({i \in 1..Len(t) : t[i] = ":"}) + 1, Len(t))

ValueOf(line) == AfterColon(line)

\* The property lines named `name` of the event closed by the line e.
PropertiesOf(lines, e, name) == {j \in (BeginOf(lines, e) + 1)..(e - 1) : Property(lines[j], name)}

\* An 8-digit date, with or without a time of day after it.
PureDate(value) == Min({i \in 1..Len(value) : value[i] = "T"} \cup {Len(value) + 1}) = 9 /\ AllDigits(SubSeq(value, 1, 8))

\* The event closed by the line e has a text that is not empty, and a date.
HasText(lines, e) == PropertiesOf(lines, e, <<"S", "U", "M", "M", "A", "R", "Y">>) # {} /\ ValueOf(lines[Max(PropertiesOf(lines, e, <<"S", "U", "M", "M", "A", "R", "Y">>))]) # <<>>

HasDate(lines, e) == \E j \in PropertiesOf(lines, e, <<"D", "T", "S", "T", "A", "R", "T">>) : PureDate(ValueOf(lines[j]))

CommitEnds(lines) == {e \in BlockEnds(lines) : HasText(lines, e) /\ HasDate(lines, e)}

\* One event of the document has no DTSTART line and every other event has
\* a text and a date.
OneLacksDate(lines) ==
  \E e \in BlockEnds(lines) :
    /\ PropertiesOf(lines, e, <<"D", "T", "S", "T", "A", "R", "T">>) = {}
    /\ CommitEnds(lines) = BlockEnds(lines) \ {e}

\* parseICS returns a list for the document, whatever identifiers it mints.
Decodes(icsText) == Len(ParseICS(icsText, [k \in 1..BeginCount(icsText) |-> NumStr(k)])) \in 0..BeginCount(icsText)

\* The list is what the events of the document commit, in their order.
CommittedInOrder(lines, ends, list) ==
  /\ Len(list) = Len(ends)
  /\ \A k \in 1..Len(ends) : list[k].text = ValueOf(lines[Max(PropertiesOf(lines, ends[k], <<"S", "U", "M", "M", "A", "R", "Y">>))])

\* C11: decode is total and commits per event. parseICS returns a list for
\* every document; an event is in the list if and only if it has, at its
\* end marker, a text that is not empty and a date; so a document in which
\* one event lacks its DTSTART line gives one task fewer than it has
\* events; and the tasks are in the order of the document.
C11_DecodeCommits ==
  /\ icsContent # NoValue => Decodes(icsContent)
  /\ events.parsed =>
       /\ CommittedInOrder(Lines(icsContent), Sorted(CommitEnds(Lines(icsContent))), events.list)
       /\ OneLacksDate(Lines(icsContent)) => Len(events.list) = Cardinality(BlockEnds(Lines(icsContent))) - 1

\* A document of two events, one of them without DTSTART, was decoded to
\* one task.
C11_Witness ==
  /\ events.parsed
  /\ OneLacksDate(Lines(icsContent))
  /\ Cardinality(BlockEnds(Lines(icsContent))) = 2
  /\ Len(events.list) = 1

\* ---------------------------------------------------------------------
\* Import properties, stated on the step of reader.onload and on the
\* record `events` it leaves.

\* The step is a completed import.
ImportCompletes == ~events.parsed /\ events'.parsed

\* The end marker of the event behind the k-th decoded task.
EndOf(lines, k) == Sorted(CommitEnds(lines))[k]

\* The event closed by the line e has no DESCRIPTION, STATUS or CATEGORIES
\* line.
Bare(lines, e) ==
  /\ PropertiesOf(lines, e, <<"D", "E", "S", "C", "R", "I", "P", "T", "I", "O", "N">>) = {}
  /\ PropertiesOf(lines, e, <<"S", "T", "A", "T", "U", "S">>) = {}
  /\ PropertiesOf(lines, e, <<"C", "A", "T", "E", "G", "O", "R", "I", "E", "S">>) = {}

\* The UID values of the event closed by the line e.
UidsOf(lines, e) == {ValueOf(lines[j]) : j \in PropertiesOf(lines, e, <<"U", "I", "D">>)}

\* The last n tasks of a list.
LastOf(list, n) == SubSeq(list, Len(list) - n + 1, Len(list))

\* The decoded list is made of the committed events of the document, each
\* with an identifier of the clock and a random suffix that is none of its
\* UID values, pinned = false, and the defaults where it is bare.
DecodedAsNew(lines, ends, list, clock) ==
  /\ Len(list) = Len(ends)
  /\ \A k \in 1..Len(list) :
       /\ list[k].id \in {NumStr(clock) \o r : r \in RandomSuffixes}
       /\ list[k].id \notin UidsOf(lines, ends[k])
       /\ list[k].pinned = FALSE
       /\ Bare(lines, ends[k]) => list[k].completed = FALSE /\ list[k].category = personal /\ list[k].tags = <<>>

\* The collection `after` is `before` with n tasks appended, the tasks of
\* newTodos by their identifiers, none of them pinned.
AppendedUnpinned(before, after, newTodos) ==
  /\ Len(after) = Len(before) + Len(newTodos)
  /\ \A i \in 1..Len(newTodos) : after[Len(before) + i].id = newTodos[i].id /\ after[Len(before) + i].pinned = FALSE

\* C12: decoded identity and defaults.  Every decoded task has an
\* identifier made at decode time of the clock and a random suffix,
\* whatever the UID of its event, and pinned = false; an event with no
\* DESCRIPTION, STATUS or CATEGORIES line gives completed = false,
\* category = "personal", tags = []; and every task the import appends to
\* the collection has pinned = false.
C12_DecodedDefaults ==
  [][ImportCompletes =>
       /\ \A lines \in {Lines(icsContent)} : \A ends \in {Sorted(CommitEnds(lines))} : DecodedAsNew(lines, ends, events'.list, now)
       /\ AppendedUnpinned(todos, todos', events'.newTodos)]_vars

\* An import of an event that has a UID line and no DESCRIPTION, STATUS or
\* CATEGORIES line has appended its task.
C12_Witness ==
  /\ events.parsed
  /\ Len(events.newTodos) = 1
  /\ Bare(Lines(icsContent), EndOf(Lines(icsContent), 1))
  /\ UidsOf(Lines(icsContent), EndOf(Lines(icsContent), 1)) # {}
  /\ Len(todos) > Len(events.prevTodos)
  /\ LastOf(todos, 1)[1].id = events.newTodos[1].id

\* C13: identifier uniqueness.  No two tasks of the collection have the
\* same identifier, after any sequence of add, edit, toggle, delete,
\* import and rollover, two adds or an add and an import at one value of
\* the clock included.
C13_UniqueIds == \A i, j \in 1..Len(todos) : todos[i].id = todos[j].id => i = j

\* The string is YYYY-MM-DD and names a day of the calendar.
RealDate(s) ==
  /\ Len(s) = 10
  /\ \A i \in 1..10 : IF i \in {5, 8} THEN s[i] = "-" ELSE IsDigit(s[i])
  /\ DateTriple(s)[2] \in 1..12
  /\ DateTriple(s)[3] \in 1..LengthOfMonth(DateTriple(s)[1], DateTriple(s)[2])

\* C14: date validity.  Every task of the collection has a date that is a
\* valid YYYY-MM-DD string; an imported event whose date-start value is 8
\* digits that form no real date never enters the collection.
C14_ValidDates == \A i \in 1..Len(todos) : RealDate(todos[i].date)

\* ---------------------------------------------------------------------
\* Precedence of the property lines of one event.

\* The line carries the sub-field Completed with the value `word`.
CompletedIn(line, word) ==
  \E p \in 1..Len(line), k \in 0..Len(line) :
    /\ OccursAt(line, <<"C", "o", "m", "p", "l", "e", "t", "e", "d", ":">>, p)
    /\ p + 10 + k <= Len(line)
    /\ \A j \in 0..(k - 1) : line[p + 10 + j] \in WhiteSpace
    /\ OccursAt(line, word, p + 10 + k)

\* The status lines of the event closed by the line e, and its description
\* lines that carry a Completed sub-field.
StatusLines(lines, e) == PropertiesOf(lines, e, <<"S", "T", "A", "T", "U", "S">>)

CompletedLines(lines, e) == {j \in PropertiesOf(lines, e, <<"D", "E", "S", "C", "R", "I", "P", "T", "I", "O", "N">>) : CompletedIn(lines[j], <<"Y", "e", "s">>) \/ CompletedIn(lines[j], <<"N", "o">>)}

\* The completed flag of `task` is the one the later of the two kinds of
\* line gives.
LaterLineWins(lines, e, task) ==
  (StatusLines(lines, e) # {} /\ CompletedLines(lines, e) # {}) =>
    \A last \in {Max(StatusLines(lines, e) \cup CompletedLines(lines, e))} :
      task.completed = IF last \in StatusLines(lines, e)
                       THEN ValueOf(lines[last]) = COMPLETED
                       ELSE CompletedIn(lines[last], <<"Y", "e", "s">>)

\* C15: status against description.  When an event has both a status line
\* and a description line with a Completed sub-field, the completed flag
\* of its task is set by the one that comes later in the block: a status
\* line to (value = COMPLETED), a description line to (Completed = Yes).
C15_LaterLineWins ==
  events.parsed =>
    \A lines \in {Lines(icsContent)} : \A ends \in {Sorted(CommitEnds(lines))} :
      /\ Len(events.list) = Len(ends)
      /\ \A k \in 1..Len(ends) : LaterLineWins(lines, ends[k], events.list[k])

\* A decoded event whose description line comes after its status line and
\* disagrees with it.
C15_Witness ==
  /\ events.parsed
  /\ Len(events.list) = 1
  /\ \A lines \in {Lines(icsContent)} : \A e \in {Max(CommitEnds(lines))} :
       /\ StatusLines(lines, e) # {} /\ CompletedLines(lines, e) # {}
       /\ Max(CompletedLines(lines, e)) > Max(StatusLines(lines, e))
       /\ ValueOf(lines[Max(StatusLines(lines, e))]) = COMPLETED
       /\ CompletedIn(lines[Max(CompletedLines(lines, e))], <<"N", "o">>)
       /\ ~events.list[1].completed

\* The category lines of the event closed by the line e, and its
\* description lines that carry a Category sub-field.
CategoriesLines(lines, e) == PropertiesOf(lines, e, <<"C", "A", "T", "E", "G", "O", "R", "I", "E", "S">>)

CategoryLines(lines, e) == {j \in PropertiesOf(lines, e, <<"D", "E", "S", "C", "R", "I", "P", "T", "I", "O", "N">>) : \E p \in 1..Len(lines[j]) : OccursAt(lines[j], <<"C", "a", "t", "e", "g", "o", "r", "y", ":">>, p)}

\* C16: category precedence.  When an event has both a categories line and
\* a description line with a Category sub-field, the category of its task
\* is the value of the categories line, in whatever order the two lines
\* come.
C16_CategoriesLineWins ==
  events.parsed =>
    \A lines \in {Lines(icsContent)} : \A ends \in {Sorted(CommitEnds(lines))} :
      /\ Len(events.list) = Len(ends)
      /\ \A k \in 1..Len(ends) :
           (CategoriesLines(lines, ends[k]) # {} /\ CategoryLines(lines, ends[k]) # {}) =>
             events.list[k].category = ValueOf(lines[Max(CategoriesLines(lines, ends[k]))])

\* C17: one reference date per overview.  Whatever the clock does while
\* one overview is computed, midnight included, the today bucket and the
\* three arrays of dates are relative to one day: the arrays hold the days
\* 1..7, 8..28 and 29..365 after the date of the today bucket.  Stated for
\* the zone UTC, where a day on the wall clock is a day of the date.
C17_OneReferenceDate ==
  (overview.rendered /\ tz = "UTC") =>
    /\ SetOf(overview.next7Days) = DaysAfter(overview.today, 1, 7)
    /\ SetOf(overview.next28Days) = DaysAfter(overview.today, 8, 28)
    /\ SetOf(overview.next365Days) = DaysAfter(overview.today, 29, 365)

\* ---------------------------------------------------------------------
\* The collection after an import.

\* YYYYMMDD with dashes.
Dashed(value) == SubSeq(value, 1, 4) \o <<"-">> \o SubSeq(value, 5, 6) \o <<"-">> \o SubSeq(value, 7, 8)

\* The date the last dated DTSTART line of the event closed by e gives.
DateOf(lines, e) == Dashed(ValueOf(lines[Max({j \in PropertiesOf(lines, e, <<"D", "T", "S", "T", "A", "R", "T">>) : PureDate(ValueOf(lines[j]))})]))

TextOf(lines, e) == ValueOf(lines[Max(PropertiesOf(lines, e, <<"S", "U", "M", "M", "A", "R", "Y">>))])

\* `after` is the task `before`, or `before` moved to `today` by the
\* rollover that follows a change of the number of tasks.
SameButRolled(before, after, today) ==
  \/ after = before
  \/ /\ ~before.completed /\ RealDate(before.date) /\ Earlier(before.date, today)
     /\ after = [before EXCEPT !.date = today]

\* `after` is the collection `before` followed by one task for each of the
\* events closed by `ends`, in their order.
Appended(before, after, lines, ends, today) ==
  /\ Len(after) = Len(before) + Len(ends)
  /\ \A i \in 1..Len(before) : SameButRolled(before[i], after[i], today)
  /\ \A k \in 1..Len(ends) :
       /\ after[Len(before) + k].text = TextOf(lines, ends[k])
       /\ SameButRolled([after[Len(before) + k] EXCEPT !.date = DateOf(lines, ends[k])], after[Len(before) + k], today)

UnfinishedPast(todo, today) == ~todo.completed /\ RealDate(todo.date) /\ Earlier(todo.date, today)

\* C19: a late task waits for the next day.  A rollover trigger that finds
\* the marker equal to today leaves every unfinished task dated before
\* today as it is, however the task came into the collection; a trigger
\* that finds another marker (the first one of a later day) gives each of
\* them the date of today; and after any trigger the marker is today, so
\* no further trigger of that day moves a task.
C19_LateTaskWaits ==
  roll.called =>
    /\ Len(todos) = Len(roll.pre)
    /\ lastCheck = roll.today
    /\ \A i \in 1..Len(roll.pre) :
         UnfinishedPast(roll.pre[i], roll.today) =>
           IF roll.lastCheckBefore = roll.today
           THEN todos[i] = roll.pre[i]
           ELSE todos[i] = [roll.pre[i] EXCEPT !.date = roll.today]

\* A trigger that follows another trigger of the same day has left in
\* place an unfinished task of the past that an import brought that day
\* and one that was un-completed.
C19_Witness ==
  /\ roll.called
  /\ roll.prevToday = roll.today
  /\ roll.lastCheckBefore = roll.today
  /\ events.parsed
  /\ Today(events.clock) = roll.today
  /\ \E i \in 1..Len(todos) : todos[i].id \in IdsOf(events.newTodos) /\ UnfinishedPast(todos[i], roll.today)
  /\ \E j \in 1..Len(todos) : todos[j].id \notin IdsOf(events.newTodos) /\ UnfinishedPast(todos[j], roll.today)

\* ---------------------------------------------------------------------
\* The stored collection.

\* The store holds the collection `list`.
Holds(stored, list) == stored.kind = "array" /\ stored.value = list

Abandoned(lines) ==
  {b \in 1..Len(lines) :
     /\ IsBegin(lines[b])
     /\ \A e \in (b + 1)..Len(lines) : IsEnd(lines[e]) => \E j \in (b + 1)..(e - 1) : IsBegin(lines[j])}

\* The list holds one task for each of the events closed by `ends`, with
\* the text and the date its own lines give.
OwnFields(lines, ends, list) ==
  /\ Len(list) = Len(ends)
  /\ \A k \in 1..Len(ends) :
       /\ list[k].text = TextOf(lines, ends[k])
       /\ list[k].date = DateOf(lines, ends[k])

\* C21: no nesting, one accumulator.  A begin marker inside an open event
\* discards what the event had gathered, which is neither committed nor
\* passed on to the new event; an end marker outside an event and property
\* lines outside an event are ignored; an event open at the end of the
\* input is not committed.  So the decoded list is made of the events that
\* a begin marker opens and the next marker closes, each from the lines
\* between its two markers alone, and holds nothing for the other lines.
C21_SingleAccumulator ==
  events.parsed =>
    \A lines \in {Lines(icsContent)} : \A ends \in {Sorted(CommitEnds(lines))} :
      /\ OwnFields(lines, ends, events.list)
      /\ Len(events.list) <= Cardinality({b \in 1..Len(lines) : IsBegin(lines[b])}) - Cardinality(Abandoned(lines))

\* A document in which a begin marker cut short an event that had a text
\* and a date, and the event that followed was committed alone.
C21_Witness ==
  /\ events.parsed
  /\ Len(events.list) = 1
  /\ \A lines \in {Lines(icsContent)} :
       \E b \in Abandoned(lines) : \E e \in CommitEnds(lines) :
         /\ b < BeginOf(lines, e)
         /\ \E j \in (b + 1)..(BeginOf(lines, e) - 1) : Property(lines[j], <<"S", "U", "M", "M", "A", "R", "Y">>) /\ ValueOf(lines[j]) # events.list[1].text
         /\ \E j \in (b + 1)..(BeginOf(lines, e) - 1) : Property(lines[j], <<"D", "T", "S", "T", "A", "R", "T">>)

====
